---- MODULE Spec2Model ----
(***************************************************************************)
(* The two experiment notebooks of gsa_framework/dev:                      *)
(*   "run_gsa"  : src/dev/run_gsa.ipynb   (registry, driver loop, plots)   *)
(*   "part_000" : src/unnamed/part_000    (registry, driver loop with      *)
(*                optional dask.delayed, cluster cells, dask.compute)      *)
(* The state is the notebook kernel's variables, the part of the file      *)
(* system the notebooks touch, and a history of the calls made into the    *)
(* framework (gf.Problem, gf.LCAModel, plot_sa_results) and into dask.      *)
(***************************************************************************)
EXTENDS Integers, Sequences, FiniteSets, TLC

VARIABLES
    nb,                 \* which notebook is being run
    pc,                 \* position of the kernel in the notebook
    fs,                 \* set of directories that exist
    fs0,                \* history: the directories that existed at the start
    files,              \* set of result files that exist
    handoffs,           \* directories handed to LCAModel / SLURMCluster
    models_dict,        \* the model registry
    model_names,        \* selected models
    gsa_methods,        \* selected GSA methods
    use_dask,           \* part_000: deferred mode switch
    problem_per_worker, \* part_000: "delayed" or "Problem"
    model_evals,        \* part_000: list of problems / deferred tasks
    mi,                 \* iterator position of "for model_name in model_names"
    gi,                 \* iterator position of "for gsa_method in gsa_methods"
    model,              \* loop variable: model instance
    write_dir,          \* loop variable: output directory
    problem,            \* loop variable: last value of problem_per_worker(...)
    sa_results,         \* run_gsa: the unpickled result set
    k,                  \* run_gsa: iterator position in sa_results.items()
    visited,            \* history: calls of problem_per_worker, in order
    built,              \* history: per call, the executions of gf.Problem
    plots,              \* history: calls of plot_sa_results
    raised,             \* history: exceptions raised, with the state then
    which_pc,           \* part_000: cluster kind
    cluster,            \* part_000: the cluster object
    n_workers,          \* part_000: number of workers scaled to
    triggered,          \* history: Len(model_evals) when dask.compute started
    rerun               \* whether the driver cell has been run a second time

vars == <<nb, pc, fs, fs0, files, handoffs, models_dict, model_names, gsa_methods,
          use_dask, problem_per_worker, model_evals, mi, gi, model, write_dir,
          problem, sa_results, k, visited, built, plots, raised, which_pc,
          cluster, n_workers, triggered, rerun>>

----------------------------------------------------------------------------
(* Bounds on the lengths of model_names and gsa_methods *)

MaxModels == 2
MaxMethods == 2

----------------------------------------------------------------------------
(* Literals of the notebooks *)

None == -1                 \* Python's None where an int is expected
Seed == 34534
EFastIterations == 130
LcaNumParams == 114688     \* model_lca.num_params as printed by part_000
ConstLca == 2
ConstPart000 == 2
MorrisParams000 == 100
MorrisParamsRun == 50
SLParams000 == 100

Notebooks == {"run_gsa", "part_000"}

Range(s) == {s[i] : i \in 1..Len(s)}

\* num_params of a model built with the framework's default arguments
DefaultNumParams == {3, 5}

ModelCandidates == <<"lca", "morris", "sobol_levitan">>
MethodCandidates ==
    <<"correlation_coefficients", "sobol_indices", "eFAST_indices", "xgboost">>

RegistryNames == {"lca", "moon", "morris", "sobol_levitan"}

WriteDirOf(name) ==
    CASE name = "lca" -> "lca_model"
      [] name = "moon" -> "moon_model"
      [] name = "morris" -> "morris_model"
      [] name = "sobol_levitan" -> "sobol_levitan_model"

PathDaskLogs == "dask_logs"

\* the directories a notebook looks at or creates
Paths(n) ==
    {WriteDirOf(m) : m \in Range(ModelCandidates)} \cup
    (IF n = "part_000" THEN {PathDaskLogs} ELSE {})

----------------------------------------------------------------------------
(* Helpers *)

SeqOfSet(s, S) ==
    LET f == CHOOSE g \in [1..Cardinality(S) -> S] :
                 \A i, j \in 1..Cardinality(S) : i < j => g[i] < g[j]
    IN  [i \in 1..Cardinality(S) |-> s[f[i]]]

\* the lists obtained from s by commenting entries out, at most max kept
SubLists(s, max) ==
    {SeqOfSet(s, S) : S \in {T \in SUBSET (1..Len(s)) : Cardinality(T) <= max}}

NoModel == [cls |-> "unset", num_params |-> 0]
NoEntry == [model |-> NoModel, write_dir |-> "unset", iterations |-> 0, const |-> 0]
NoArgs == [sampler |-> "unset", model |-> NoModel, interpreter |-> "unset",
           write_dir |-> "unset", iterations |-> 0, seed |-> 0, X |-> None]
NoProblem == [deferred |-> FALSE, args |-> NoArgs]
NoResults == [path |-> <<"unset", "unset">>, names |-> <<>>]

----------------------------------------------------------------------------
(* The framework the notebooks call into (gsa_framework, pickle, dask) *)

\* problem.gsa_dict['sa_results']: the result file of a Problem
ResultPath(args) == <<args.write_dir, args.interpreter>>

\* keys of the pickled result set, in the order .items() yields them
ResultIndexNames(interpreter) ==
    CASE interpreter = "correlation_coefficients" -> <<"pearson", "spearman">>
      [] interpreter = "sobol_indices" -> <<"First order", "Total order">>
      [] interpreter = "eFAST_indices" -> <<"First order", "Total order">>
      [] interpreter = "xgboost" -> <<"fscores">>
      [] OTHER -> <<>>

\* what gf.LCAModel(demand, method, write_dir) may leave on disk
LCAModelDirs(dir, dirs) == {dirs, dirs \cup {dir}}

----------------------------------------------------------------------------
(* Registry cell *)

IterationsOf(num_params, const) == num_params * const

Entry(cls, num_params, dir, const) ==
    [model |-> [cls |-> cls, num_params |-> num_params],
     write_dir |-> dir,
     iterations |-> IterationsOf(num_params, const),
     const |-> const]

RegistryRunGsa(moonP, slP) ==
    [n \in RegistryNames |->
        CASE n = "lca" -> Entry("LCAModel", LcaNumParams, WriteDirOf(n), ConstLca)
          [] n = "moon" -> Entry("Moon", moonP, WriteDirOf(n), moonP)
          [] n = "morris" ->
                Entry("Morris", MorrisParamsRun, WriteDirOf(n), MorrisParamsRun * 2)
          [] n = "sobol_levitan" -> Entry("SobolLevitan", slP, WriteDirOf(n), slP)]

RegistryPart000(moonP) ==
    [n \in RegistryNames |->
        CASE n = "lca" -> Entry("LCAModel", LcaNumParams, WriteDirOf(n), ConstLca)
          [] n = "moon" -> Entry("Moon", moonP, WriteDirOf(n), ConstPart000)
          [] n = "morris" ->
                Entry("Morris", MorrisParams000, WriteDirOf(n), ConstPart000)
          [] n = "sobol_levitan" ->
                Entry("SobolLevitan", SLParams000, WriteDirOf(n), ConstPart000)]

Snapshot(op) ==
    [op |-> op, visited |-> visited, built |-> built, plots |-> plots,
     fs |-> fs, files |-> files]

\* an exception propagates out of the running cell: the kernel stops there
Raise(op) ==
    /\ raised' = Append(raised, Snapshot(op))
    /\ pc' = "error"

Init ==
    /\ nb \in Notebooks
    /\ pc = "registry"
    /\ fs \in SUBSET Paths(nb)
    /\ fs0 = fs
    /\ files = {}
    /\ handoffs = {}
    /\ models_dict = [n \in RegistryNames |-> NoEntry]
    /\ model_names = <<>>
    /\ gsa_methods = <<>>
    /\ use_dask = FALSE
    /\ problem_per_worker = "unset"
    /\ model_evals = <<>>
    /\ mi = 0
    /\ gi = 0
    /\ model = NoModel
    /\ write_dir = "unset"
    /\ problem = NoProblem
    /\ sa_results = NoResults
    /\ k = 0
    /\ visited = <<>>
    /\ built = <<>>
    /\ plots = <<>>
    /\ raised = <<>>
    /\ which_pc = "unset"
    /\ cluster = "unset"
    /\ n_workers = 0
    /\ triggered = None
    /\ rerun = FALSE

\* write_dir_lca = ...; model_lca = gf.LCAModel(demand, method, write_dir_lca); ...
\* models_dict = {...}
Registry ==
    /\ pc = "registry"
    /\ handoffs' = handoffs \cup
          {[to |-> "LCAModel", dir |-> WriteDirOf("lca"),
            existed |-> WriteDirOf("lca") \in fs]}
    /\ fs' \in LCAModelDirs(WriteDirOf("lca"), fs)
    /\ \E moonP \in DefaultNumParams, slP \in DefaultNumParams :
          models_dict' = IF nb = "run_gsa" THEN RegistryRunGsa(moonP, slP)
                         ELSE RegistryPart000(moonP)
    /\ pc' = "config"
    /\ UNCHANGED <<nb, fs0, files, model_names, gsa_methods, use_dask,
                   problem_per_worker, model_evals, mi, gi, model, write_dir,
                   problem, sa_results, k, visited, built, plots, raised,
                   which_pc, cluster, n_workers, triggered, rerun>>

\* gsa_methods = [...]; model_names = [...]
ConfigLists ==
    /\ pc = "config"
    /\ gsa_methods' \in SubLists(MethodCandidates, MaxMethods)
    /\ model_names' \in SubLists(ModelCandidates, MaxModels)
    /\ pc' = IF nb = "part_000" THEN "driver" ELSE "for_model"
    /\ UNCHANGED <<nb, fs0, fs, files, handoffs, models_dict, use_dask,
                   problem_per_worker, model_evals, mi, gi, model, write_dir,
                   problem, sa_results, k, visited, built, plots, raised,
                   which_pc, cluster, n_workers, triggered, rerun>>

----------------------------------------------------------------------------
(* Driver cell *)

\* faulty variant: use_dask is ignored, gf.Problem is called directly
ProblemPerWorkerEager(ud) == "Problem"

\* if use_dask: problem_per_worker = dask.delayed(gf.Problem)
\* else:        problem_per_worker = gf.Problem
ProblemPerWorker(ud) == IF ud THEN "delayed" ELSE "Problem"

\* what the loop body calls: gf.Problem in run_gsa, problem_per_worker in part_000
Callee == IF nb = "run_gsa" THEN "Problem" ELSE problem_per_worker

\* use_dask = ...; problem_per_worker = ...; model_evals = []
DriverCell ==
    /\ pc = "driver"
    /\ use_dask' \in BOOLEAN
    /\ problem_per_worker' = ProblemPerWorker(use_dask')
    /\ model_evals' = <<>>
    /\ pc' = "for_model"
    /\ UNCHANGED <<nb, fs0, fs, files, handoffs, models_dict, model_names,
                   gsa_methods, mi, gi, model, write_dir, problem, sa_results,
                   k, visited, built, plots, raised, which_pc, cluster,
                   n_workers, triggered, rerun>>

\* faulty variant: the loop iterates the registry instead of model_names
SelectedModelsRegistry == <<"lca", "moon", "morris", "sobol_levitan">>

\* the list "for model_name in ..." iterates
SelectedModels == model_names

\* if not write_dir.exists(): write_dir.mkdir(parents=True, exist_ok=True)
NeedsMkdir(dir, dirs) == dir \notin dirs

\* faulty variant: the directory is never created
DirsAfterEnsureSkip(dir, dirs) == dirs

DirsAfterEnsure(dir, dirs) == IF NeedsMkdir(dir, dirs) THEN dirs \cup {dir} ELSE dirs

\* for model_name in model_names: model = ...; write_dir = ...; ensure write_dir
ForModel ==
    /\ pc = "for_model"
    /\ mi < Len(SelectedModels)
    /\ LET name == SelectedModels[mi + 1]
           dir == models_dict[name].write_dir
       IN  /\ mi' = mi + 1
           /\ gi' = 0
           /\ model' = models_dict[name].model
           /\ write_dir' = dir
           /\ \/ /\ fs' = DirsAfterEnsure(dir, fs)
                 /\ pc' = "for_method"
                 /\ UNCHANGED raised
              \/ /\ NeedsMkdir(dir, fs)      \* mkdir raises (OSError)
                 /\ Raise("mkdir")
                 /\ UNCHANGED fs
    /\ UNCHANGED <<nb, fs0, files, handoffs, models_dict, model_names, gsa_methods,
                   use_dask, problem_per_worker, model_evals, problem,
                   sa_results, k, visited, built, plots, which_pc, cluster,
                   n_workers, triggered, rerun>>

\* the outer loop is exhausted: the cell (run_gsa: the notebook) is finished
ModelsEnd ==
    /\ pc = "for_model"
    /\ mi >= Len(SelectedModels)
    /\ pc' = IF nb = "part_000" THEN "cluster" ELSE "done"
    /\ UNCHANGED <<nb, fs0, fs, files, handoffs, models_dict, model_names,
                   gsa_methods, use_dask, problem_per_worker, model_evals, mi,
                   gi, model, write_dir, problem, sa_results, k, visited, built,
                   plots, raised, which_pc, cluster, n_workers, triggered, rerun>>

\* faulty variant: the correlation_coefficients branch is missing
IterationsNoNone(n, gsa_method, entry) ==
    IF n = "run_gsa" THEN entry.iterations
    ELSE IF gsa_method = "eFAST_indices" THEN EFastIterations
    ELSE entry.iterations

\* the iterations argument of the Problem
Iterations(n, gsa_method, entry) ==
    IF n = "run_gsa" THEN entry.iterations
    ELSE IF gsa_method = "eFAST_indices" THEN EFastIterations
    ELSE IF gsa_method = "correlation_coefficients" THEN None
    ELSE entry.iterations

\* faulty variant: the interpreter passed is the first method, not the loop's
ProblemArgsFirstMethod(n, mdl, gsa_method, dir, entry) ==
    [sampler |-> "random",
     model |-> mdl,
     interpreter |-> gsa_methods[1],
     write_dir |-> dir,
     iterations |-> Iterations(n, gsa_method, entry),
     seed |-> Seed,
     X |-> None]

\* the keyword arguments of problem_per_worker(...) / gf.Problem(...)
ProblemArgs(n, mdl, gsa_method, dir, entry) ==
    [sampler |-> "random",
     model |-> mdl,
     interpreter |-> gsa_method,
     write_dir |-> dir,
     iterations |-> Iterations(n, gsa_method, entry),
     seed |-> Seed,
     X |-> None]

\* faulty variant: the per-method override is written back into the registry
ForMethodFrameOverride ==
    /\ models_dict' =
          [models_dict EXCEPT ![model_names[mi]].iterations =
              Iterations(nb, gsa_methods[gi + 1], models_dict[model_names[mi]])]
    /\ UNCHANGED <<nb, fs0, fs, handoffs, model_names, gsa_methods,
                   use_dask, problem_per_worker, mi, model, write_dir,
                   sa_results, k, plots, which_pc, cluster, n_workers,
                   triggered, rerun>>

\* what the loop body leaves alone
ForMethodFrame ==
    UNCHANGED <<nb, fs0, fs, handoffs, models_dict, model_names, gsa_methods,
                use_dask, problem_per_worker, mi, model, write_dir, sa_results,
                k, plots, which_pc, cluster, n_workers, triggered, rerun>>

\* for gsa_method in gsa_methods: problem = problem_per_worker(...)
\* (part_000: model_evals.append(problem))
ForMethod ==
    /\ pc = "for_method"
    /\ gi < Len(gsa_methods)
    /\ LET name == SelectedModels[mi]
           gsa_method == gsa_methods[gi + 1]
           args == ProblemArgs(nb, model, gsa_method, write_dir, models_dict[name])
           visit == [model_name |-> name, gsa_method |-> gsa_method, args |-> args]
       IN  /\ gi' = gi + 1
           /\ \/ /\ Callee = "delayed"       \* only a task is recorded
                 /\ problem' = [deferred |-> TRUE, args |-> args]
                 /\ visited' = Append(visited, visit)
                 /\ built' = Append(built, <<>>)
                 /\ model_evals' = Append(model_evals, problem')
                 /\ pc' = "for_method"
                 /\ UNCHANGED <<files, raised>>
              \/ /\ Callee = "Problem"       \* gf.Problem runs here
                 /\ problem' = [deferred |-> FALSE, args |-> args]
                 /\ visited' = Append(visited, visit)
                 /\ built' = Append(built, <<write_dir \in fs>>)
                 /\ files' = files \cup {ResultPath(args)}
                 /\ model_evals' = IF nb = "part_000"
                                   THEN Append(model_evals, problem')
                                   ELSE model_evals
                 /\ pc' = IF nb = "run_gsa" THEN "load" ELSE "for_method"
                 /\ UNCHANGED raised
              \/ /\ Callee = "Problem"       \* gf.Problem raises
                 /\ Raise("Problem")
                 /\ UNCHANGED <<problem, visited, built, files, model_evals>>
    /\ ForMethodFrame

\* the inner loop is exhausted
MethodsEnd ==
    /\ pc = "for_method"
    /\ gi >= Len(gsa_methods)
    /\ pc' = "for_model"
    /\ UNCHANGED <<nb, fs0, fs, files, handoffs, models_dict, model_names,
                   gsa_methods, use_dask, problem_per_worker, model_evals, mi,
                   gi, model, write_dir, problem, sa_results, k, visited, built,
                   plots, raised, which_pc, cluster, n_workers, triggered, rerun>>

----------------------------------------------------------------------------
(* run_gsa: load and plot *)

\* filename_sa_results = problem.gsa_dict['sa_results']
\* with open(filename_sa_results, 'rb') as f: sa_results = pickle.load(f)
LoadResults ==
    /\ pc = "load"
    /\ LET filename_sa_results == ResultPath(problem.args)
       IN  \/ /\ filename_sa_results \in files
              /\ sa_results' = [path |-> filename_sa_results,
                                names |-> ResultIndexNames(filename_sa_results[2])]
              /\ k' = 0
              /\ pc' = "plot"
              /\ UNCHANGED raised
           \/ /\ Raise("load")               \* open / pickle.load raises
              /\ UNCHANGED <<sa_results, k>>
    /\ UNCHANGED <<nb, fs0, fs, files, handoffs, models_dict, model_names,
                   gsa_methods, use_dask, problem_per_worker, model_evals, mi,
                   gi, model, write_dir, problem, visited, built, plots,
                   which_pc, cluster, n_workers, triggered, rerun>>

\* faulty variant: the whole result set is passed to every plot
SaIndicesAll(results, i) == Range(results.names)

\* sa_indices = {sa_index_name: sa_index_values}
SaIndices(results, i) == {results.names[i]}

\* faulty variant: try: ... except: pass around plot_sa_results
PlotFailsSuppressed ==
    /\ raised' = Append(raised, Snapshot("plot"))
    /\ k' = k + 1
    /\ pc' = "plot"
    /\ UNCHANGED plots

\* plot_sa_results raises: nothing catches it
PlotFails ==
    /\ Raise("plot")
    /\ UNCHANGED <<k, plots>>

\* for sa_index_name, sa_index_values in sa_results.items():
\*     problem.plot_sa_results(sa_indices, model.influential_params)
PlotIndex ==
    /\ pc = "plot"
    /\ k < Len(sa_results.names)
    /\ \/ /\ plots' = Append(plots,
                 [visit |-> Len(visited), problem |-> problem,
                  sa_indices |-> SaIndices(sa_results, k + 1),
                  path |-> sa_results.path])
          /\ k' = k + 1
          /\ pc' = "plot"
          /\ UNCHANGED raised
       \/ PlotFails
    /\ UNCHANGED <<nb, fs0, fs, files, handoffs, models_dict, model_names,
                   gsa_methods, use_dask, problem_per_worker, model_evals, mi,
                   gi, model, write_dir, problem, sa_results, visited, built,
                   which_pc, cluster, n_workers, triggered, rerun>>

\* sa_results.items() is exhausted
PlotsEnd ==
    /\ pc = "plot"
    /\ k >= Len(sa_results.names)
    /\ pc' = "for_method"
    /\ UNCHANGED <<nb, fs0, fs, files, handoffs, models_dict, model_names,
                   gsa_methods, use_dask, problem_per_worker, model_evals, mi,
                   gi, model, write_dir, problem, sa_results, k, visited, built,
                   plots, raised, which_pc, cluster, n_workers, triggered, rerun>>

----------------------------------------------------------------------------
(* part_000: worker pool and collection *)

\* faulty variant: the driver cell is run again without model_evals = []
RerunDriverCellKeep ==
    /\ nb = "part_000"
    /\ pc = "cluster"
    /\ ~rerun
    /\ rerun' = TRUE
    /\ problem_per_worker' = ProblemPerWorker(use_dask)
    /\ visited' = <<>>
    /\ mi' = 0
    /\ gi' = 0
    /\ pc' = "for_model"
    /\ UNCHANGED <<nb, fs0, fs, files, handoffs, models_dict, model_names,
                   gsa_methods, use_dask, model_evals, built, model, write_dir,
                   problem, sa_results, k, plots, raised, which_pc, cluster,
                   n_workers, triggered>>

\* the driver cell is run again: model_evals = [] and the loops start over
RerunDriverCell ==
    /\ nb = "part_000"
    /\ pc = "cluster"
    /\ ~rerun
    /\ rerun' = TRUE
    /\ problem_per_worker' = ProblemPerWorker(use_dask)
    /\ model_evals' = <<>>
    /\ built' = <<>>
    /\ visited' = <<>>
    /\ mi' = 0
    /\ gi' = 0
    /\ pc' = "for_model"
    /\ UNCHANGED <<nb, fs0, fs, files, handoffs, models_dict, model_names,
                   gsa_methods, use_dask, model, write_dir, problem, sa_results,
                   k, plots, raised, which_pc, cluster, n_workers, triggered>>

\* which_pc = ...; merlin: ensure path_dask_logs, SLURMCluster(...,
\* local_directory = path_dask_logs, log_directory = path_dask_logs, ...)
\* local: LocalCluster(memory_limit='7GB')
ClusterCell ==
    /\ pc = "cluster"
    /\ \/ /\ which_pc' = "merlin"
          /\ fs' = DirsAfterEnsure(PathDaskLogs, fs)
          /\ handoffs' = handoffs \cup
                {[to |-> "SLURMCluster", dir |-> PathDaskLogs,
                  existed |-> PathDaskLogs \in fs']}
          /\ cluster' = "SLURMCluster"
          /\ pc' = "client"
          /\ UNCHANGED raised
       \/ /\ which_pc' = "merlin"
          /\ NeedsMkdir(PathDaskLogs, fs)    \* mkdir raises (OSError)
          /\ Raise("mkdir_logs")
          /\ UNCHANGED <<fs, handoffs, cluster>>
       \/ /\ which_pc' = "local"
          /\ cluster' = "LocalCluster"
          /\ pc' = "client"
          /\ UNCHANGED <<fs, handoffs, raised>>
    /\ UNCHANGED <<nb, fs0, files, models_dict, model_names, gsa_methods, use_dask,
                   problem_per_worker, model_evals, mi, gi, model, write_dir,
                   problem, sa_results, k, visited, built, plots, n_workers,
                   triggered, rerun>>

\* client = Client(cluster)
ClientCell ==
    /\ pc = "client"
    /\ pc' = "scale"
    /\ UNCHANGED <<nb, fs0, fs, files, handoffs, models_dict, model_names,
                   gsa_methods, use_dask, problem_per_worker, model_evals, mi,
                   gi, model, write_dir, problem, sa_results, k, visited, built,
                   plots, raised, which_pc, cluster, n_workers, triggered, rerun>>

\* n_workers = len(gsa_methods) * len(model_names)
NWorkers(methods, names) == Len(methods) * Len(names)

\* n_workers = ...; cluster.scale(n_workers)
ScaleCell ==
    /\ pc = "scale"
    /\ n_workers' = NWorkers(gsa_methods, model_names)
    /\ pc' = "compute"
    /\ UNCHANGED <<nb, fs0, fs, files, handoffs, models_dict, model_names,
                   gsa_methods, use_dask, problem_per_worker, model_evals, mi,
                   gi, model, write_dir, problem, sa_results, k, visited, built,
                   plots, raised, which_pc, cluster, triggered, rerun>>

\* dask.compute(model_evals) is entered
ComputeStart ==
    /\ pc = "compute"
    /\ triggered' = Len(model_evals)
    /\ pc' = "computing"
    /\ UNCHANGED <<nb, fs0, fs, files, handoffs, models_dict, model_names,
                   gsa_methods, use_dask, problem_per_worker, model_evals, mi,
                   gi, model, write_dir, problem, sa_results, k, visited, built,
                   plots, raised, which_pc, cluster, n_workers, rerun>>

\* the tasks of model_evals that dask still has to run
Pending == {i \in 1..Len(model_evals) : model_evals[i].deferred /\ built[i] = <<>>}

\* a worker runs one deferred gf.Problem(...) call
Evaluate ==
    /\ pc = "computing"
    /\ \E i \in Pending :
          \/ /\ built' = [built EXCEPT ![i] = <<model_evals[i].args.write_dir \in fs>>]
             /\ files' = files \cup {ResultPath(model_evals[i].args)}
             /\ UNCHANGED <<pc, raised>>
          \/ /\ Raise("compute")             \* the task raises: compute re-raises
             /\ UNCHANGED <<built, files>>
    /\ UNCHANGED <<nb, fs0, fs, handoffs, models_dict, model_names, gsa_methods,
                   use_dask, problem_per_worker, model_evals, mi, gi, model,
                   write_dir, problem, sa_results, k, visited, plots, which_pc,
                   cluster, n_workers, triggered, rerun>>

\* dask.compute returns: every task has finished
ComputeReturn ==
    /\ pc = "computing"
    /\ Pending = {}
    /\ pc' = "done"
    /\ UNCHANGED <<nb, fs0, fs, files, handoffs, models_dict, model_names,
                   gsa_methods, use_dask, problem_per_worker, model_evals, mi,
                   gi, model, write_dir, problem, sa_results, k, visited, built,
                   plots, raised, which_pc, cluster, n_workers, triggered, rerun>>

Next ==
    \/ Registry
    \/ ConfigLists
    \/ DriverCell
    \/ ForModel
    \/ ModelsEnd
    \/ ForMethod
    \/ MethodsEnd
    \/ LoadResults
    \/ PlotIndex
    \/ PlotsEnd
    \/ RerunDriverCell
    \/ ClusterCell
    \/ ClientCell
    \/ ScaleCell
    \/ ComputeStart
    \/ Evaluate
    \/ ComputeReturn

Spec == Init /\ [][Next]_vars

----------------------------------------------------------------------------
(* Properties *)

NPairs == Len(model_names) * Len(gsa_methods)

\* the pair the i-th visit of a model-major, method-minor sweep falls on
PairModel(i) == model_names[((i - 1) \div Len(gsa_methods)) + 1]
PairMethod(i) == gsa_methods[((i - 1) % Len(gsa_methods)) + 1]

\* the driver loop of the notebook has run to its end
DriverDone == pc \in {"cluster", "client", "scale", "compute", "computing", "done"}

\* C1: every execution of gf.Problem finds the write_dir it was given
\* existing, whether the directory was there at the start or not; a directory
\* that exists is never removed, and mkdir raises only for one that is absent.
C1_WriteDirExists ==
    /\ \A i \in 1..Len(built) : \A j \in 1..Len(built[i]) : built[i][j]
    /\ \A i \in 1..Len(visited) :
          /\ visited[i].args.write_dir = models_dict[visited[i].model_name].write_dir
          /\ visited[i].args.write_dir \in fs
    /\ fs0 \subseteq fs
    /\ \A r \in 1..Len(raised) : raised[r].op = "mkdir" => write_dir \notin raised[r].fs

C1_Witness ==
    /\ pc = "done"
    /\ \E i \in 1..Len(built) :
          built[i] # <<>> /\ visited[i].args.write_dir \notin fs0
    /\ \E i \in 1..Len(built) :
          built[i] # <<>> /\ visited[i].args.write_dir \in fs0

\* C2: the visits of the driver loop are a prefix of the model-major,
\* method-minor sweep of model_names x gsa_methods; a finished loop has made
\* all of them (part_000: model_evals holds them in that order), and a
\* finished run has executed gf.Problem exactly once for each.
C2_OneProblemPerPair ==
    /\ Len(visited) <= NPairs
    /\ Len(built) = Len(visited)
    /\ \A i \in 1..Len(visited) :
          /\ visited[i].model_name = PairModel(i)
          /\ visited[i].gsa_method = PairMethod(i)
          /\ visited[i].args.interpreter = PairMethod(i)
          /\ visited[i].args.model = models_dict[PairModel(i)].model
          /\ Len(built[i]) <= 1
    /\ (DriverDone /\ nb = "part_000") =>
          /\ Len(model_evals) = NPairs
          /\ \A i \in 1..Len(model_evals) : model_evals[i].args = visited[i].args
    /\ pc = "done" =>
          /\ Len(visited) = NPairs
          /\ \A i \in 1..Len(visited) : Len(built[i]) = 1

C2_Witness ==
    /\ pc = "done"
    /\ nb = "part_000"
    /\ Len(model_evals) = 4
    /\ model_names = <<"lca", "sobol_levitan">>

C4_DeferredEvaluation ==
    (nb = "part_000" /\ pc \notin {"registry", "config", "driver"}) =>
        /\ \A i \in 1..Len(built) : Len(built[i]) <= 1
        /\ use_dask =>
              /\ \A i \in 1..Len(model_evals) : model_evals[i].deferred
              /\ pc \in {"for_model", "for_method", "cluster", "client",
                         "scale", "compute"} =>
                    \A i \in 1..Len(built) : built[i] = <<>>
        /\ ~use_dask =>
              \A i \in 1..Len(model_evals) :
                  ~model_evals[i].deferred /\ Len(built[i]) = 1
        /\ pc = "done" =>
              \A i \in 1..Len(model_evals) : Len(built[i]) = 1

C4_Witness ==
    /\ use_dask
    /\ pc = "computing"
    /\ \E i, j \in 1..Len(model_evals) : built[i] # <<>> /\ built[j] = <<>>

\* C5: once the registry is built no step changes it.
C5_RegistryReadOnly ==
    [][pc # "registry" => models_dict' = models_dict]_vars

C5_Witness ==
    /\ pc = "done"
    /\ nb = "part_000"
    /\ \E i \in 1..Len(visited) :
          /\ visited[i].gsa_method = "eFAST_indices"
          /\ visited[i].args.iterations # models_dict[visited[i].model_name].iterations

\* the plots made for visit v, in order
PlotsOf(v) == SelectSeq(plots, LAMBDA p : p.visit = v)

\* C6 (run_gsa): a result set is loaded only from the file of the Problem
\* just constructed; every plot gets one index of the result set of its own
\* pair; the plots of a pair follow the order of its index names, and all of
\* them are made before the next pair is visited.
C6_LoadThenPlot ==
    nb = "run_gsa" =>
        /\ pc \in {"load", "plot"} =>
              /\ Len(built[Len(visited)]) = 1
              /\ problem.args = visited[Len(visited)].args
              /\ ResultPath(problem.args) \in files
        /\ pc = "load" => PlotsOf(Len(visited)) = <<>>
        /\ pc = "plot" =>
              /\ sa_results.path = ResultPath(visited[Len(visited)].args)
              /\ Len(PlotsOf(Len(visited))) = k
        /\ \A j \in 1..Len(plots) :
              /\ plots[j].visit \in 1..Len(visited)
              /\ plots[j].path = ResultPath(visited[plots[j].visit].args)
              /\ plots[j].problem.args = visited[plots[j].visit].args
              /\ Cardinality(plots[j].sa_indices) = 1
              /\ j > 1 => plots[j - 1].visit <= plots[j].visit
        /\ \A v \in 1..Len(visited) :
              LET names == ResultIndexNames(visited[v].gsa_method)
                  mine == PlotsOf(v)
              IN  /\ Len(mine) <= Len(names)
                  /\ \A i \in 1..Len(mine) : mine[i].sa_indices = {names[i]}
                  /\ (v < Len(visited) \/ pc = "done") => Len(mine) = Len(names)

C6_Witness ==
    /\ nb = "run_gsa"
    /\ pc = "done"
    /\ Len(visited) = 4
    /\ Len(plots) >= 6

\* C7 (run_gsa): an exception stops the driver where it is raised: nothing is
\* visited, built, plotted, created or written after it.
C7_ErrorsStopTheDriver ==
    nb = "run_gsa" =>
        /\ pc = "error" <=> raised # <<>>
        /\ \A r \in 1..Len(raised) :
              /\ Len(raised) = 1
              /\ visited = raised[r].visited
              /\ built = raised[r].built
              /\ plots = raised[r].plots
              /\ fs = raised[r].fs
              /\ files = raised[r].files

C7_Witness ==
    /\ nb = "run_gsa"
    /\ pc = "error"
    /\ raised[1].op = "plot"
    /\ Len(visited) >= 2
    /\ Len(plots) >= 3
    /\ k < Len(sa_results.names)
    /\ fs # fs0

\* C8: the iterations argument is 130 for eFAST_indices and None for
\* correlation_coefficients in part_000, and otherwise the registry entry's
\* iterations, which is num_params * const.
C8_IterationsPassed ==
    /\ \A i \in 1..Len(visited) :
          LET v == visited[i]
              configured == models_dict[v.model_name].iterations
          IN  v.args.iterations =
                  IF nb = "run_gsa" THEN configured
                  ELSE IF v.gsa_method = "eFAST_indices" THEN 130
                  ELSE IF v.gsa_method = "correlation_coefficients" THEN None
                  ELSE configured
    /\ pc # "registry" =>
          \A n \in RegistryNames :
              models_dict[n].iterations =
                  models_dict[n].model.num_params * models_dict[n].const

C8_Witness ==
    /\ nb = "part_000"
    /\ \E i, j \in 1..Len(visited) :
          /\ visited[i].gsa_method = "correlation_coefficients"
          /\ visited[i].args.iterations = None
          /\ visited[j].gsa_method = "xgboost"
          /\ visited[j].args.iterations = 200

\* C9: every directory handed to LCAModel or SLURMCluster exists at the
\* hand-off.
C9_HandedOffDirsExist ==
    \A h \in handoffs : h.existed

\* C10: dask.compute is entered with as many tasks as workers were asked
\* for, also after the driver cell was run again.
C10_WorkersMatchTasks ==
    /\ pc = "compute" =>
          /\ n_workers = NPairs
          /\ Len(model_evals) = n_workers
    /\ triggered # None => triggered = n_workers

C10_Witness ==
    /\ pc = "computing"
    /\ rerun
    /\ triggered = 4
    /\ n_workers = 4

====
